---- MODULE Spec2Model ----
(***************************************************************************)
(* State-machine model of src/rust/src/api/mls_api.rs: the process-wide    *)
(* NOSTR_MLS session (a Mutex<Option<NostrMls<NostrMlsSqliteStorage>>>)    *)
(* and the public operations that drive it.                                *)
(*                                                                         *)
(* The operations of mls_api.rs are translated from the source.  The crate *)
(* they call (nostr_mls, nostr_mls_sqlite_storage) is not part of the      *)
(* source tree; its operations (the Lib_* definitions) are modelled from   *)
(* the specification's description of the group session manager, welcome   *)
(* processor, message codec and key package manager.                       *)
(***************************************************************************)
EXTENDS Naturals, Sequences, FiniteSets

(***************************************************************************)
(* Bounds and input universes                                              *)
(***************************************************************************)
MaxEpoch == 1

Pubkeys == {"A", "B", "C"}
PkStrings == Pubkeys \cup {"bad"}           \* "bad": PublicKey::from_str fails
KPs == {"kA", "kB"}
KpStrings == KPs \cup {"bad"}               \* "bad": parse_serialized_key_package fails
KpOwner == [k \in KPs |-> IF k = "kA" THEN "A" ELSE "B"]
LocalGids == {"g1"}                         \* ids create_group can draw
RemoteGids == {"g2"}                        \* ids of groups created elsewhere
Gids == LocalGids \cup RemoteGids
Payloads == {"p", "q"}
RumorStrings == Payloads \cup {"bad"}       \* "bad": UnsignedEvent::from_json fails
RelayUrls == {"wss://r"}                    \* any other string: RelayUrl::from_str fails
DbPaths == {"db"}
Threads == {"t1", "t2"}                     \* threads calling the public operations

NoSession == "None"

(***************************************************************************)
(* Values                                                                  *)
(***************************************************************************)
Range(s) == {s[i] : i \in 1..Len(s)}

\* One GroupState row of the storage: me is the identity under which this
\* store takes part in the group (the creator, or the owner of the key
\* package a welcome was addressed to).
\* The key schedule (3, "Epoch secret"; 4.4).  Secrets are numbers below
\* Modulus.  A group starts from its own secret, and every commit derives
\* the next epoch's secret from the current one.
Modulus == 17
NoKey == Modulus                            \* no secret
NoPayload == Modulus                        \* no sealed content
Seed(g) == IF g = "g1" THEN 1 ELSE 5
KDF(secret) == (5 * secret + 3) % Modulus

\* the secret of group g at epoch e, as every member that followed the
\* group's commits derives it
RECURSIVE EpochKey(_, _)
EpochKey(g, e) == IF e = 0 THEN Seed(g) ELSE KDF(EpochKey(g, e - 1))

\* Encryption of a message content under an epoch secret, and decryption.
Seal(secret, content) == (content + 2 * secret) % Modulus
Open(secret, sealed) == (sealed + 2 * (Modulus - secret)) % Modulus

GroupRow(g, e, ms, as, me) ==
    [gid |-> g, epoch |-> e, members |-> ms, admins |-> as, me |-> me,
     secret |-> EpochKey(g, e)]

\* A transport event carrying an MLS message: kind is "app", "commit" or
\* "proposal"; the framing names the group and the epoch the message was
\* made at; payload is an application content sealed under the sender's
\* secret of that epoch.
NoEvent ==
    [kind |-> "none", gid |-> "none", epoch |-> 0, sender |-> "none",
     payload |-> NoPayload, add |-> {}, remove |-> {}]
BadEvent == [NoEvent EXCEPT !.kind = "bad"]     \* not the JSON of an Event
\* the application message a member that followed the group's commits makes
\* at epoch e
AppEvent(g, e, from, content) ==
    [kind |-> "app", gid |-> g, epoch |-> e, sender |-> from,
     payload |-> Seal(EpochKey(g, e), content), add |-> {}, remove |-> {}]
CommitEvent(g, e, from, add, rem) ==
    [kind |-> "commit", gid |-> g, epoch |-> e, sender |-> from,
     payload |-> NoPayload, add |-> add, remove |-> rem]
\* A proposal message: from proposes the removal of who; nothing is applied
\* until a commit.
ProposalEvent(g, e, from, who) ==
    [kind |-> "proposal", gid |-> g, epoch |-> e, sender |-> from,
     payload |-> NoPayload, add |-> {}, remove |-> {who}]

\* JSON of an event (serde_json::to_value(&event)) and its parse
\* (serde_json::from_str::<Event>): the fields in a fixed order; any other
\* string is not an event.
NoJson == << >>
BadJson == <<"bad">>
Event_to_json(ev) ==
    <<ev.kind, ev.gid, ev.epoch, ev.sender, ev.payload, ev.add, ev.remove>>
Event_from_str(str) ==
    IF Len(str) # 7 THEN BadEvent
    ELSE [kind |-> str[1], gid |-> str[2], epoch |-> str[3], sender |-> str[4],
          payload |-> str[5], add |-> str[6], remove |-> str[7]]

\* UnsignedEvent::from_json of a rumor string: the content of the rumor, 0
\* when the string is not the JSON of an UnsignedEvent; and the JSON of a
\* decrypted message (serde_json::to_value(&message)), which shows its
\* content.
NoContent == 0
UnsignedEvent_from_json(str) ==
    CASE str = "p" -> 3 [] str = "q" -> 5 [] OTHER -> NoContent
Message_to_value(content) ==
    CASE content = 3 -> "p" [] content = 5 -> "q" [] OTHER -> "?"

\* A queued proposal as handed to commit_proposal: the epoch it was made at
\* and the change it proposes (remove a member, or add a key package's owner).
RemoveProposal(e, who) == [epoch |-> e, kind |-> "remove", who |-> who, kp |-> "none"]
AddProposal(e, k) == [epoch |-> e, kind |-> "add", who |-> KpOwner[k], kp |-> k]
BadProposal == [epoch |-> 0, kind |-> "bad", who |-> "none", kp |-> "none"]

\* A welcome artifact: the group it admits to and the key package it is
\* encrypted to; wellformed = FALSE is a structurally broken welcome.
\* json = FALSE is a rumor string that is not the JSON of an UnsignedEvent.
Welcome(g, e, ms, as, k, wf, js) ==
    [gid |-> g, epoch |-> e, members |-> ms, admins |-> as, kp |-> k,
     wellformed |-> wf, json |-> js]

\* The part of a call's result the claims look at.
NoOut ==
    [gid |-> "none", epoch |-> 0, members |-> {}, admins |-> {},
     payload |-> "none", changes |-> FALSE, added |-> {}, removed |-> {},
     secret |-> NoKey, kp |-> "none", event |-> NoEvent, event_json |-> NoJson,
     content |-> NoContent]

(***************************************************************************)
(* Storage lookups                                                         *)
(***************************************************************************)
HasGroup(gs, g) == \E i \in 1..Len(gs) : gs[i].gid = g
Row(gs, g) == gs[CHOOSE i \in 1..Len(gs) : gs[i].gid = g]
PutRow(gs, g, r) == [i \in 1..Len(gs) |-> IF gs[i].gid = g THEN r ELSE gs[i]]
FreshGids(gs) == {g \in LocalGids : ~HasGroup(gs, g)}

LibErr(e, gs, ks) == [err |-> e, gs |-> gs, ks |-> ks, out |-> NoOut]
LibOk(gs, ks, out) == [err |-> "ok", gs |-> gs, ks |-> ks, out |-> out]

(***************************************************************************)
(* The nostr_mls engine, modelled from the specification (sections 3, 4).  *)
(* gs is the store's sequence of GroupState rows, ks its key-package       *)
(* table: per key package, whether its row is in storage and how many      *)
(* times it has been consumed.                                             *)
(***************************************************************************)
KpNone == [stored |-> FALSE, used |-> 0]
KpStored == [stored |-> TRUE, used |-> 0]

\* parse_key_package: pure; only the encoding is examined.
Lib_parse_serialized_key_package(s) ==
    IF s \in KPs THEN [err |-> "ok", kp |-> s]
    ELSE [err |-> "InvalidKeyPackage", kp |-> "none"]

\* create_key_package: one new key-package row for the identity.
Lib_create_key_package_for_event(gs, ks, pk) ==
    LET k == CHOOSE k \in KPs : KpOwner[k] = pk /\ ks[k] = KpNone
    IN LibOk(gs, [ks EXCEPT ![k] = KpStored], [NoOut EXCEPT !.kp = k])

\* key packages accepted without looking at the storage
AllUsable_Unchecked(ks, kps) == Cardinality(Range(kps)) = Len(kps)

AllUsable(ks, kps) ==
    /\ \A i \in 1..Len(kps) : ks[kps[i]].stored
    /\ Cardinality(Range(kps)) = Len(kps)

\* Consumption deletes the row.
Consume(ks, kps) ==
    [k \in KPs |-> IF k \in Range(kps)
                   THEN [stored |-> FALSE, used |-> ks[k].used + 1]
                   ELSE ks[k]]

\* create_group (4.2): arity and admin validation, epoch 0, every key
\* package consumed.
Lib_create_group(gs, ks, creator, mpks, mkps, admins) ==
    IF \/ Len(mpks) # Len(mkps)
       \/ ~(Range(admins) \subseteq ({creator} \cup Range(mpks)))
       \/ ~AllUsable(ks, mkps)
    THEN LibErr("GroupCreationError", gs, ks)
    ELSE LET g == CHOOSE g \in FreshGids(gs) : TRUE
             row == GroupRow(g, 0, {creator} \cup Range(mpks), Range(admins), creator)
         IN LibOk(Append(gs, row), Consume(ks, mkps),
                  [NoOut EXCEPT !.gid = g, !.members = row.members,
                                !.admins = row.admins])

\* get_members / get_group (4.2): read-only accessors.
\* io = FALSE: the persistence boundary fails (StorageError).
Lib_get_members(gs, ks, g, io) ==
    IF ~io THEN LibErr("StorageError", gs, ks)
    ELSE IF ~HasGroup(gs, g) THEN LibErr("GroupNotFound", gs, ks)
    ELSE LibOk(gs, ks, [NoOut EXCEPT !.gid = g, !.members = Row(gs, g).members])

Lib_get_group(gs, ks, g, io) ==
    IF ~io THEN LibErr("StorageError", gs, ks)
    ELSE IF ~HasGroup(gs, g) THEN LibOk(gs, ks, NoOut)       \* Ok(None)
    ELSE LibOk(gs, ks, [NoOut EXCEPT !.gid = g, !.admins = Row(gs, g).admins,
                                     !.epoch = Row(gs, g).epoch])

\* Applying a commit (3, "Commit"): the single state-mutating operation on
\* a GroupState; epoch N -> N+1, admins stay within the member set.
\* a commit that leaves the admin list as it was
ApplyCommit_KeepAdmins(row, add, rem) ==
    [row EXCEPT !.epoch = row.epoch + 1, !.members = (row.members \ rem) \cup add,
                !.secret = KDF(row.secret)]

ApplyCommit(row, add, rem) ==
    LET ms == (row.members \ rem) \cup add
    IN [row EXCEPT !.epoch = row.epoch + 1, !.members = ms,
                   !.admins = row.admins \cap ms,
                   !.secret = KDF(row.secret)]

Committed(gs, ks, g, add, rem) ==
    LET row == Row(gs, g)
        new == ApplyCommit(row, add, rem)
    IN LibOk(PutRow(gs, g, new), ks,
             [NoOut EXCEPT !.gid = g, !.epoch = new.epoch, !.changes = TRUE,
                           !.added = add \ row.members,
                           !.removed = rem \cap row.members,
                           !.event = CommitEvent(g, row.epoch, row.me, add, rem)])

\* add_members (4.2).
Lib_add_members(gs, ks, g, kps) ==
    IF ~HasGroup(gs, g) THEN LibErr("GroupNotFound", gs, ks)
    ELSE IF Row(gs, g).me \notin Row(gs, g).members THEN LibErr("NotAMember", gs, ks)
    ELSE IF ~AllUsable(ks, kps) THEN LibErr("InvalidKeyPackage", gs, ks)
    ELSE Committed(gs, Consume(ks, kps), g, {KpOwner[k] : k \in Range(kps)}, {})

\* remove_members (4.2): the keys arrive as strings; MemberNotFound if any
\* is not currently a member, otherwise the commit that removes them all.
Lib_remove_members(gs, ks, g, pks) ==
    IF ~HasGroup(gs, g) THEN LibErr("GroupNotFound", gs, ks)
    ELSE IF ~(Range(pks) \subseteq Pubkeys) THEN LibErr("InvalidInput", gs, ks)
    ELSE IF ~(Range(pks) \subseteq Row(gs, g).members) THEN LibErr("MemberNotFound", gs, ks)
    ELSE Committed(gs, ks, g, {}, Range(pks))

\* commit_proposal (4.2): only a proposal of the current epoch commits.
Lib_commit_proposal(gs, ks, g, prop) ==
    IF ~HasGroup(gs, g) THEN LibErr("GroupNotFound", gs, ks)
    ELSE IF prop.epoch < Row(gs, g).epoch THEN LibErr("StaleProposal", gs, ks)
    ELSE IF prop.epoch > Row(gs, g).epoch THEN LibErr("EpochMismatch", gs, ks)
    ELSE IF Row(gs, g).me \notin Row(gs, g).members THEN LibErr("NotAMember", gs, ks)
    ELSE IF prop.kind = "remove"
         THEN IF prop.who \notin Row(gs, g).members
              THEN LibErr("MemberNotFound", gs, ks)
              ELSE Committed(gs, ks, g, {}, {prop.who})
         ELSE IF ~ks[prop.kp].stored
              THEN LibErr("InvalidKeyPackage", gs, ks)
              ELSE Committed(gs, Consume(ks, <<prop.kp>>), g, {prop.who}, {})

\* leave_group (4.2): a self-removal proposal; the local GroupState stays.
Lib_leave_group(gs, ks, g) ==
    IF ~HasGroup(gs, g) THEN LibErr("GroupNotFound", gs, ks)
    ELSE IF Row(gs, g).me \notin Row(gs, g).members THEN LibErr("NotAMember", gs, ks)
    ELSE LibOk(gs, ks, [NoOut EXCEPT !.gid = g, !.epoch = Row(gs, g).epoch,
                                     !.removed = {Row(gs, g).me},
                                     !.event = ProposalEvent(g, Row(gs, g).epoch,
                                                             Row(gs, g).me, Row(gs, g).me)])

\* encrypt (4.4): the group must exist and the local identity be a member;
\* the rumor's content is sealed under the stored secret of the current epoch.
Lib_create_message(gs, ks, g, content) ==
    IF ~HasGroup(gs, g) THEN LibErr("GroupNotFound", gs, ks)
    ELSE IF Row(gs, g).me \notin Row(gs, g).members THEN LibErr("NotAMember", gs, ks)
    ELSE LibOk(gs, ks, [NoOut EXCEPT !.gid = g,
               !.event = [kind |-> "app", gid |-> g, epoch |-> Row(gs, g).epoch,
                          sender |-> Row(gs, g).me,
                          payload |-> Seal(Row(gs, g).secret, content),
                          add |-> {}, remove |-> {}]])

\* Wrapping a serialized commit into a transport event.
Lib_create_commit_proposal_message(gs, ks, g, commit) ==
    IF ~HasGroup(gs, g) THEN LibErr("GroupNotFound", gs, ks)
    ELSE LibOk(gs, ks, [NoOut EXCEPT !.gid = g, !.event = commit])

\* export_secret (4.4): the stored secret of the current epoch's key
\* schedule, with the epoch.
Lib_exporter_secret(gs, ks, g) ==
    IF ~HasGroup(gs, g) THEN LibErr("GroupNotFound", gs, ks)
    ELSE LibOk(gs, ks, [NoOut EXCEPT !.gid = g, !.epoch = Row(gs, g).epoch,
                                     !.secret = Row(gs, g).secret])

\* decrypt (4.4, 8.6): an application payload or a commit application; a
\* proposal (3) is queued until a commit consumes it, and changes nothing.
\* A message of a stale or future epoch fails with EpochMismatch (4.4); of
\* the messages of the current epoch, one received after the local
\* identity's removal fails with NotAMember (8.6).  The content is opened
\* with the stored secret of the current epoch.
Lib_process_message(gs, ks, ev) ==
    IF ~HasGroup(gs, ev.gid) THEN LibErr("GroupNotFound", gs, ks)
    ELSE IF ev.epoch # Row(gs, ev.gid).epoch
         THEN LibErr("EpochMismatch", gs, ks)
    ELSE IF Row(gs, ev.gid).me \notin Row(gs, ev.gid).members
         THEN LibErr("NotAMember", gs, ks)
    ELSE IF ev.kind = "app"
         THEN LibOk(gs, ks, [NoOut EXCEPT !.gid = ev.gid,
                                          !.content = Open(Row(gs, ev.gid).secret, ev.payload)])
    ELSE IF ev.kind = "proposal"
         THEN LibOk(gs, ks, [NoOut EXCEPT !.gid = ev.gid])
         ELSE Committed(gs, ks, ev.gid, ev.add, ev.remove)

\* preview_welcome (4.3): no GroupState is created or mutated.
Lib_preview_welcome(gs, ks, w) ==
    IF ~w.wellformed THEN LibErr("MalformedWelcome", gs, ks)
    ELSE IF ~ks[w.kp].stored THEN LibErr("WelcomeDecryptionError", gs, ks)
    ELSE LibOk(gs, ks, [NoOut EXCEPT !.gid = w.gid, !.admins = w.admins])

\* a join that does not look for the group in the storage
Lib_process_welcome_Unchecked(gs, ks, w) ==
    IF ~w.wellformed THEN LibErr("MalformedWelcome", gs, ks)
    ELSE IF ~ks[w.kp].stored THEN LibErr("WelcomeDecryptionError", gs, ks)
    ELSE LibOk(Append(gs, GroupRow(w.gid, w.epoch, w.members, w.admins, KpOwner[w.kp])),
               ks, [NoOut EXCEPT !.gid = w.gid, !.admins = w.admins])

\* join (4.3): materializes the GroupState; a welcome whose group is
\* already stored is rejected.
Lib_process_welcome(gs, ks, w) ==
    IF ~w.wellformed THEN LibErr("MalformedWelcome", gs, ks)
    ELSE IF ~ks[w.kp].stored THEN LibErr("WelcomeDecryptionError", gs, ks)
    ELSE IF HasGroup(gs, w.gid) THEN LibErr("WelcomeAlreadyProcessed", gs, ks)
    ELSE LibOk(Append(gs, GroupRow(w.gid, w.epoch, w.members, w.admins, KpOwner[w.kp])),
               ks, [NoOut EXCEPT !.gid = w.gid, !.admins = w.admins])

(***************************************************************************)
(* State of mls_api.rs                                                     *)
(***************************************************************************)
VARIABLES
    session,    \* NOSTR_MLS: NoSession, or the db path the held NostrMls has open
    handles,    \* per db path, the number of open storage handles
    ipc,        \* position of the init_nostr_mls call holding the lock; 0 = none
    iarg,       \* the db path that call was given
    groups,     \* per db path, the stored GroupState rows
    kp,         \* per db path, the stored key-package table
    inited,     \* history: some init_nostr_mls call has returned Ok
    thr,        \* per calling thread, its position in a call, the call and what it read
    poisoned,   \* the Mutex is poisoned: a thread panicked while holding it
    lastlock    \* outcome of the latest NOSTR_MLS.lock(): "none", "acquired", "failed"

vars == <<session, handles, ipc, iarg, groups, kp, inited, thr, poisoned, lastlock>>

\* A thread outside any call.
NoCall == [op |-> "none", g |-> "none", keys |-> << >>]
NoSnap ==
    [session |-> NoSession, groups |-> [d \in DbPaths |-> << >>],
     kp |-> [d \in DbPaths |-> [k \in KPs |-> KpNone]]]
\* overlap (history): an init_nostr_mls call held the lock at some moment
\* between this thread's call and its acquisition of the lock.
Idle == [pc |-> "idle", call |-> NoCall, snap |-> NoSnap, overlap |-> FALSE]

Init ==
    /\ session = NoSession
    /\ handles = [d \in DbPaths |-> 0]
    /\ ipc = 0
    /\ iarg = "none"
    /\ groups = [d \in DbPaths |-> << >>]
    /\ kp = [d \in DbPaths |-> [k \in KPs |-> KpNone]]
    /\ inited = FALSE
    /\ thr = [t \in Threads |-> Idle]
    /\ poisoned = FALSE
    /\ lastlock = "none"

\* The state the public operations read and write.
Cur == [session |-> session, groups |-> groups, kp |-> kp]

(***************************************************************************)
(* Results of the public operations.  A result carries the returned value  *)
(* (ret) and the state as the call leaves it (st: the session and the      *)
(* storage behind it).  msg is the text of the anyhow error ("ok" on       *)
(* success), cause the engine's error kind carried inside it.              *)
(***************************************************************************)
Ret(op, msg, cause, out) == [op |-> op, msg |-> msg, cause |-> cause, out |-> out]

Fail(st, op, msg, cause) == [ret |-> Ret(op, msg, cause, NoOut), st |-> st]

\* `.map_err(|e| anyhow!("<msg>: {}", e))?` on an engine call
LibFail(st, op, msg, r) ==
    [ret |-> Ret(op, msg, r.err, NoOut),
     st |-> [st EXCEPT !.groups[st.session] = r.gs, !.kp[st.session] = r.ks]]

Ok(st, op, r, out) ==
    [ret |-> Ret(op, "ok", "none", out),
     st |-> [st EXCEPT !.groups[st.session] = r.gs, !.kp[st.session] = r.ks]]

\* `mls.as_ref().ok_or_else(|| anyhow!("NostrMls is not initialized"))?`
NotInitialized(st, op) == Fail(st, op, "NostrMls is not initialized", "NotInitialized")

AllIn(strs, good) == Range(strs) \subseteq good

(***************************************************************************)
(* The public operations of mls_api.rs, as functions of the state st       *)
(***************************************************************************)
get_ciphersuite(st) ==
    IF st.session = NoSession THEN NotInitialized(st, "get_ciphersuite")
    ELSE Ok(st, "get_ciphersuite", LibOk(st.groups[st.session], st.kp[st.session], NoOut), NoOut)

get_extensions(st) ==
    IF st.session = NoSession THEN NotInitialized(st, "get_extensions")
    ELSE Ok(st, "get_extensions", LibOk(st.groups[st.session], st.kp[st.session], NoOut), NoOut)

create_key_package_for_event(st, public_key, relay) ==
    IF st.session = NoSession THEN NotInitialized(st, "create_key_package_for_event")
    ELSE IF public_key \notin Pubkeys
         THEN Fail(st, "create_key_package_for_event", "Invalid public key", "InvalidInput")
    ELSE IF ~AllIn(relay, RelayUrls)
         THEN Fail(st, "create_key_package_for_event", "Invalid relay url", "InvalidInput")
    ELSE LET r == Lib_create_key_package_for_event(st.groups[st.session], st.kp[st.session], public_key)
         IN IF r.err # "ok"
            THEN LibFail(st, "create_key_package_for_event", "Failed to create key package", r)
            ELSE Ok(st, "create_key_package_for_event", r, r.out)

\* a create_group that pairs members with key packages up to the shorter list
Shorter(a, b) == IF Len(a) <= Len(b) THEN Len(a) ELSE Len(b)

create_group_Paired(st, kpstrs, pkstrs, creator, adminstrs, relays, io) ==
    IF st.session = NoSession THEN NotInitialized(st, "create_group")
    ELSE IF ~AllIn(pkstrs, Pubkeys)
         THEN Fail(st, "create_group", "Invalid member pubkey", "InvalidInput")
    ELSE IF \E i \in 1..Len(kpstrs) : Lib_parse_serialized_key_package(kpstrs[i]).err # "ok"
         THEN Fail(st, "create_group", "Failed to parse key package", "InvalidKeyPackage")
    ELSE IF ~AllIn(adminstrs, Pubkeys)
         THEN Fail(st, "create_group", "Invalid admin pubkey", "InvalidInput")
    ELSE IF creator \notin Pubkeys
         THEN Fail(st, "create_group", "Invalid creator pubkey", "InvalidInput")
    ELSE IF ~AllIn(relays, RelayUrls)
         THEN Fail(st, "create_group", "Invalid relay url", "InvalidInput")
    ELSE LET n == Shorter(kpstrs, pkstrs)
             r == Lib_create_group(st.groups[st.session], st.kp[st.session], creator,
                                   SubSeq(pkstrs, 1, n), SubSeq(kpstrs, 1, n), adminstrs)
         IN IF r.err # "ok" THEN LibFail(st, "create_group", "Failed to create group", r)
            ELSE LET m == Lib_get_members(r.gs, r.ks, r.out.gid, io)
                 IN IF m.err # "ok" THEN LibFail(st, "create_group", "Failed to get members", m)
                    ELSE Ok(st, "create_group", m,
                            [r.out EXCEPT !.members = m.out.members])

create_group(st, kpstrs, pkstrs, creator, adminstrs, relays, io) ==
    IF st.session = NoSession THEN NotInitialized(st, "create_group")
    ELSE IF ~AllIn(pkstrs, Pubkeys)
         THEN Fail(st, "create_group", "Invalid member pubkey", "InvalidInput")
    ELSE IF \E i \in 1..Len(kpstrs) : Lib_parse_serialized_key_package(kpstrs[i]).err # "ok"
         THEN Fail(st, "create_group", "Failed to parse key package", "InvalidKeyPackage")
    ELSE IF ~AllIn(adminstrs, Pubkeys)
         THEN Fail(st, "create_group", "Invalid admin pubkey", "InvalidInput")
    ELSE IF creator \notin Pubkeys
         THEN Fail(st, "create_group", "Invalid creator pubkey", "InvalidInput")
    ELSE IF ~AllIn(relays, RelayUrls)
         THEN Fail(st, "create_group", "Invalid relay url", "InvalidInput")
    ELSE LET r == Lib_create_group(st.groups[st.session], st.kp[st.session], creator, pkstrs,
                                   kpstrs, adminstrs)
         IN IF r.err # "ok" THEN LibFail(st, "create_group", "Failed to create group", r)
            ELSE LET m == Lib_get_members(r.gs, r.ks, r.out.gid, io)
                 IN IF m.err # "ok" THEN LibFail(st, "create_group", "Failed to get members", m)
                    ELSE Ok(st, "create_group", m,
                            [r.out EXCEPT !.members = m.out.members])

\* a create_message that parses the rumor before it looks at the session
create_message_for_group_ParseFirst(st, group_id, rumor_event_string) ==
    LET rumor_event == UnsignedEvent_from_json(rumor_event_string)
    IN IF rumor_event = NoContent
       THEN Fail(st, "create_message_for_group", "Failed to parse event", "InvalidInput")
       ELSE IF st.session = NoSession THEN NotInitialized(st, "create_message_for_group")
       ELSE LET r == Lib_create_message(st.groups[st.session], st.kp[st.session],
                                        group_id, rumor_event)
            IN IF r.err # "ok"
               THEN LibFail(st, "create_message_for_group", "Failed to create message", r)
               ELSE Ok(st, "create_message_for_group", r,
                       [r.out EXCEPT !.event_json = Event_to_json(r.out.event)])

create_message_for_group(st, group_id, rumor_event_string) ==
    IF st.session = NoSession THEN NotInitialized(st, "create_message_for_group")
    ELSE LET rumor_event == UnsignedEvent_from_json(rumor_event_string)
         IN IF rumor_event = NoContent
            THEN Fail(st, "create_message_for_group", "Failed to parse event", "InvalidInput")
            ELSE LET r == Lib_create_message(st.groups[st.session], st.kp[st.session],
                                             group_id, rumor_event)
                 IN IF r.err # "ok"
                    THEN LibFail(st, "create_message_for_group", "Failed to create message", r)
                    ELSE Ok(st, "create_message_for_group", r,
                            [r.out EXCEPT !.event_json = Event_to_json(r.out.event)])

create_commit_message_for_group(st, group_id, commit) ==
    IF st.session = NoSession THEN NotInitialized(st, "create_commit_message_for_group")
    ELSE LET r == Lib_create_commit_proposal_message(st.groups[st.session], st.kp[st.session],
                                                     group_id, commit)
         IN IF r.err # "ok"
            THEN LibFail(st, "create_commit_message_for_group", "Failed to create message", r)
            ELSE Ok(st, "create_commit_message_for_group", r,
                    [r.out EXCEPT !.event_json = Event_to_json(r.out.event)])

\* a variant that answers with the secret exported at the group's first epoch
export_secret_Cached(st, group_id) ==
    IF st.session = NoSession THEN NotInitialized(st, "export_secret")
    ELSE LET r == Lib_exporter_secret(st.groups[st.session], st.kp[st.session], group_id)
         IN IF r.err # "ok" THEN LibFail(st, "export_secret", "Failed to export secret", r)
            ELSE Ok(st, "export_secret", r, [r.out EXCEPT !.secret = EpochKey(group_id, 0)])

export_secret(st, group_id) ==
    IF st.session = NoSession THEN NotInitialized(st, "export_secret")
    ELSE LET r == Lib_exporter_secret(st.groups[st.session], st.kp[st.session], group_id)
         IN IF r.err # "ok" THEN LibFail(st, "export_secret", "Failed to export secret", r)
            ELSE Ok(st, "export_secret", r, r.out)

\* `match result.message { Some(message) => to_value(&message), None => Null }`
MessageJson(content) ==
    IF content = NoContent THEN "none" ELSE Message_to_value(content)

\* a process_message that reports an engine failure as a result without content
process_message_for_group_Swallow(st, event_string) ==
    IF st.session = NoSession THEN NotInitialized(st, "process_message_for_group")
    ELSE LET event == Event_from_str(event_string)
         IN IF event.kind = "bad"
            THEN Fail(st, "process_message_for_group", "Failed to deserialize event",
                      "InvalidInput")
            ELSE LET r == Lib_process_message(st.groups[st.session], st.kp[st.session], event)
                 IN Ok(st, "process_message_for_group", r,
                       [r.out EXCEPT !.payload = MessageJson(r.out.content)])

\* a process_message that returns the membership changes only
process_message_for_group_NoMessage(st, event_string) ==
    IF st.session = NoSession THEN NotInitialized(st, "process_message_for_group")
    ELSE LET event == Event_from_str(event_string)
         IN IF event.kind = "bad"
            THEN Fail(st, "process_message_for_group", "Failed to deserialize event",
                      "InvalidInput")
            ELSE LET r == Lib_process_message(st.groups[st.session], st.kp[st.session], event)
                 IN IF r.err # "ok"
                    THEN LibFail(st, "process_message_for_group", "Failed to process message", r)
                    ELSE Ok(st, "process_message_for_group", r, r.out)

process_message_for_group(st, event_string) ==
    IF st.session = NoSession THEN NotInitialized(st, "process_message_for_group")
    ELSE LET event == Event_from_str(event_string)
         IN IF event.kind = "bad"
            THEN Fail(st, "process_message_for_group", "Failed to deserialize event",
                      "InvalidInput")
            ELSE LET r == Lib_process_message(st.groups[st.session], st.kp[st.session], event)
                 IN IF r.err # "ok"
                    THEN LibFail(st, "process_message_for_group", "Failed to process message", r)
                    ELSE Ok(st, "process_message_for_group", r,
                            [r.out EXCEPT !.payload = MessageJson(r.out.content)])

\* a preview that calls the engine's process_welcome, as the join does
preview_group_from_welcome_Joins(st, idok, w) ==
    IF st.session = NoSession THEN NotInitialized(st, "preview_group_from_welcome")
    ELSE IF ~w.json
         THEN Fail(st, "preview_group_from_welcome", "Failed to parse event", "InvalidInput")
    ELSE IF ~idok
         THEN Fail(st, "preview_group_from_welcome", "Invalid event ID", "InvalidInput")
    ELSE LET r == Lib_process_welcome(st.groups[st.session], st.kp[st.session], w)
         IN IF r.err # "ok"
            THEN LibFail(st, "preview_group_from_welcome", "Failed to process welcome", r)
            ELSE Ok(st, "preview_group_from_welcome", r, r.out)

preview_group_from_welcome(st, idok, w) ==
    IF st.session = NoSession THEN NotInitialized(st, "preview_group_from_welcome")
    ELSE IF ~w.json
         THEN Fail(st, "preview_group_from_welcome", "Failed to parse event", "InvalidInput")
    ELSE IF ~idok
         THEN Fail(st, "preview_group_from_welcome", "Invalid event ID", "InvalidInput")
    ELSE LET r == Lib_preview_welcome(st.groups[st.session], st.kp[st.session], w)
         IN IF r.err # "ok"
            THEN LibFail(st, "preview_group_from_welcome", "Failed to process welcome", r)
            ELSE Ok(st, "preview_group_from_welcome", r, r.out)

join_group_from_welcome(st, idok, w, io) ==
    IF st.session = NoSession THEN NotInitialized(st, "join_group_from_welcome")
    ELSE IF ~w.json
         THEN Fail(st, "join_group_from_welcome", "Failed to parse event", "InvalidInput")
    ELSE IF ~idok
         THEN Fail(st, "join_group_from_welcome", "Invalid event ID", "InvalidInput")
    ELSE LET r == Lib_process_welcome(st.groups[st.session], st.kp[st.session], w)
         IN IF r.err # "ok"
            THEN LibFail(st, "join_group_from_welcome", "Failed to process welcome", r)
            ELSE LET m == Lib_get_members(r.gs, r.ks, r.out.gid, io)
                 IN IF m.err # "ok"
                    THEN LibFail(st, "join_group_from_welcome", "Failed to get members", m)
                    ELSE Ok(st, "join_group_from_welcome", m,
                            [r.out EXCEPT !.members = m.out.members])

get_members(st, group_id, io) ==
    IF st.session = NoSession THEN NotInitialized(st, "get_members")
    ELSE LET m == Lib_get_members(st.groups[st.session], st.kp[st.session], group_id, io)
         IN IF m.err # "ok" THEN LibFail(st, "get_members", "Failed to get members", m)
            ELSE Ok(st, "get_members", m, m.out)

\* a get_group that answers an absent group with default content
get_group_Default(st, group_id, iog, io) ==
    IF st.session = NoSession THEN NotInitialized(st, "get_group")
    ELSE LET r == Lib_get_group(st.groups[st.session], st.kp[st.session], group_id, iog)
         IN IF r.err # "ok" THEN LibFail(st, "get_group", "Failed to get group", r)
            ELSE IF r.out.gid = "none"
                 THEN Ok(st, "get_group", r, r.out)
            ELSE LET m == Lib_get_members(r.gs, r.ks, group_id, io)
                 IN IF m.err # "ok" THEN LibFail(st, "get_group", "Failed to get members", m)
                    ELSE Ok(st, "get_group", m, [r.out EXCEPT !.members = m.out.members])

get_group(st, group_id, iog, io) ==
    IF st.session = NoSession THEN NotInitialized(st, "get_group")
    ELSE LET r == Lib_get_group(st.groups[st.session], st.kp[st.session], group_id, iog)
         IN IF r.err # "ok" THEN LibFail(st, "get_group", "Failed to get group", r)
            ELSE IF r.out.gid = "none"
                 THEN Fail(st, "get_group", "Group not found", "GroupNotFound")
            ELSE LET m == Lib_get_members(r.gs, r.ks, group_id, io)
                 IN IF m.err # "ok" THEN LibFail(st, "get_group", "Failed to get members", m)
                    ELSE Ok(st, "get_group", m, [r.out EXCEPT !.members = m.out.members])

\* add_members with one engine commit per key package instead of one for all.
RECURSIVE AddOneByOne(_, _, _, _)
AddOneByOne(gs, ks, g, kps) ==
    IF kps = << >> THEN LibOk(gs, ks, NoOut)
    ELSE LET r == Lib_add_members(gs, ks, g, <<Head(kps)>>)
         IN IF r.err # "ok" THEN r ELSE AddOneByOne(r.gs, r.ks, g, Tail(kps))

add_members_OneByOne(st, group_id, kpstrs) ==
    IF st.session = NoSession THEN NotInitialized(st, "add_members")
    ELSE IF \E i \in 1..Len(kpstrs) : Lib_parse_serialized_key_package(kpstrs[i]).err # "ok"
         THEN Fail(st, "add_members", "Failed to parse key package", "InvalidKeyPackage")
    ELSE LET r == AddOneByOne(st.groups[st.session], st.kp[st.session], group_id, kpstrs)
         IN IF r.err # "ok" THEN LibFail(st, "add_members", "Failed to add members", r)
            ELSE Ok(st, "add_members", r, r.out)

add_members(st, group_id, kpstrs) ==
    IF st.session = NoSession THEN NotInitialized(st, "add_members")
    ELSE IF \E i \in 1..Len(kpstrs) : Lib_parse_serialized_key_package(kpstrs[i]).err # "ok"
         THEN Fail(st, "add_members", "Failed to parse key package", "InvalidKeyPackage")
    ELSE LET r == Lib_add_members(st.groups[st.session], st.kp[st.session], group_id, kpstrs)
         IN IF r.err # "ok" THEN LibFail(st, "add_members", "Failed to add members", r)
            ELSE Ok(st, "add_members", r, r.out)

\* a remove_members that passes on only the keys that are members
remove_members_Filtered(st, group_id, member_pubkeys) ==
    IF st.session = NoSession THEN NotInitialized(st, "remove_members")
    ELSE LET gs == st.groups[st.session]
             ms == IF HasGroup(gs, group_id) THEN Row(gs, group_id).members ELSE {}
             r == Lib_remove_members(gs, st.kp[st.session], group_id,
                                     SelectSeq(member_pubkeys, LAMBDA x : x \in ms))
         IN IF r.err # "ok" THEN LibFail(st, "remove_members", "Failed to remove members", r)
            ELSE Ok(st, "remove_members", r, r.out)

remove_members(st, group_id, member_pubkeys) ==
    IF st.session = NoSession THEN NotInitialized(st, "remove_members")
    ELSE LET r == Lib_remove_members(st.groups[st.session], st.kp[st.session], group_id, member_pubkeys)
         IN IF r.err # "ok" THEN LibFail(st, "remove_members", "Failed to remove members", r)
            ELSE Ok(st, "remove_members", r, r.out)

\* a commit_proposal that applies the proposed change as a fresh commit
commit_proposal_Direct(st, group_id, proposal) ==
    IF st.session = NoSession THEN NotInitialized(st, "commit_proposal")
    ELSE IF proposal.kind = "bad"
         THEN Fail(st, "commit_proposal", "Failed to deserialize proposal", "InvalidInput")
    ELSE LET r == IF proposal.kind = "remove"
                  THEN Lib_remove_members(st.groups[st.session], st.kp[st.session],
                                          group_id, <<proposal.who>>)
                  ELSE Lib_add_members(st.groups[st.session], st.kp[st.session],
                                       group_id, <<proposal.kp>>)
         IN IF r.err # "ok" THEN LibFail(st, "commit_proposal", "Failed to commit proposal", r)
            ELSE Ok(st, "commit_proposal", r, r.out)

commit_proposal(st, group_id, proposal) ==
    IF st.session = NoSession THEN NotInitialized(st, "commit_proposal")
    ELSE IF proposal.kind = "bad"
         THEN Fail(st, "commit_proposal", "Failed to deserialize proposal", "InvalidInput")
    ELSE LET r == Lib_commit_proposal(st.groups[st.session], st.kp[st.session], group_id, proposal)
         IN IF r.err # "ok" THEN LibFail(st, "commit_proposal", "Failed to commit proposal", r)
            ELSE Ok(st, "commit_proposal", r, r.out)

\* a leave that also removes the local identity from the stored group
leave_group_Removes(st, group_id) ==
    IF st.session = NoSession THEN NotInitialized(st, "leave_group")
    ELSE LET r == Lib_leave_group(st.groups[st.session], st.kp[st.session], group_id)
         IN IF r.err # "ok" THEN LibFail(st, "leave_group", "Failed to leave group", r)
            ELSE Ok(st, "leave_group",
                    Lib_remove_members(r.gs, r.ks, group_id,
                                       <<Row(r.gs, group_id).me>>), r.out)

leave_group(st, group_id) ==
    IF st.session = NoSession THEN NotInitialized(st, "leave_group")
    ELSE LET r == Lib_leave_group(st.groups[st.session], st.kp[st.session], group_id)
         IN IF r.err # "ok" THEN LibFail(st, "leave_group", "Failed to leave group", r)
            ELSE Ok(st, "leave_group", r, r.out)

(***************************************************************************)
(* init_nostr_mls: lock, drop the old session, open the storage, store the *)
(* new session.  The lock is held from the call to the return, so no other *)
(* operation runs while ipc # 0.  openable = FALSE: new_with_password      *)
(* fails (unusable path, wrong password).                                  *)
(***************************************************************************)
\* an init that opens the new storage before it drops the old session
InitOrder_OpenFirst == <<"open", "drop", "store">>

InitOrder == <<"drop", "open", "store">>

\* a lock() that returns without waiting for the holder
LockFree_Unguarded == TRUE

\* NOSTR_MLS.lock() returns only while no call holds the guard: no
\* init_nostr_mls call and no thread is between its lock() and its return.
LockFree == ipc = 0 /\ \A t \in Threads : thr[t].pc # "in"

init_nostr_mls_lock(db) ==
    /\ LockFree /\ ~poisoned
    /\ ipc' = 1
    /\ iarg' = db
    /\ lastlock' = "acquired"
    /\ thr' = [t \in Threads |->
                 IF thr[t].pc = "waiting" THEN [thr[t] EXCEPT !.overlap = TRUE] ELSE thr[t]]
    /\ UNCHANGED <<session, handles, groups, kp, inited, poisoned>>

init_nostr_mls_step(openable) ==
    /\ ipc > 0
    /\ CASE InitOrder[ipc] = "drop" ->
              \* if let Some(old_mls) = mls.take() { drop(old_mls); }
              /\ session' = NoSession
              /\ handles' = IF session = NoSession THEN handles
                            ELSE [handles EXCEPT ![session] = @ - 1]
              /\ ipc' = ipc + 1
              /\ UNCHANGED <<iarg, inited>>
         [] InitOrder[ipc] = "open" ->
              \* NostrMlsSqliteStorage::new_with_password(db_path, ..)?
              IF openable
              THEN /\ handles' = [handles EXCEPT ![iarg] = @ + 1]
                   /\ ipc' = ipc + 1
                   /\ UNCHANGED <<session, iarg, inited>>
              ELSE /\ ipc' = 0                \* Err("Failed to initialize storage")
                   /\ iarg' = "none"
                   /\ UNCHANGED <<session, handles, inited>>
         [] OTHER ->
              \* *mls = Some(nostr_mls); Ok(..)
              /\ session' = iarg
              /\ ipc' = 0
              /\ iarg' = "none"
              /\ inited' = TRUE
              /\ UNCHANGED handles
    /\ UNCHANGED <<groups, kp, thr, poisoned, lastlock>>

(***************************************************************************)
(* Calls of the other operations: the whole call is one step under the     *)
(* lock.  The guards keep the model finite: a call is left out when it     *)
(* would draw a group id or key package beyond the modelled universe or    *)
(* take an epoch past MaxEpoch.                                            *)
(***************************************************************************)
EpochsBounded(gsf) ==
    \A d \in DbPaths : \A i \in 1..Len(gsf[d]) : gsf[d][i].epoch <= MaxEpoch

Apply(r) ==
    /\ LockFree /\ ~poisoned
    /\ EpochsBounded(r.st.groups)
    /\ groups' = r.st.groups
    /\ kp' = r.st.kp
    /\ lastlock' = "acquired"
    /\ UNCHANGED <<session, handles, ipc, iarg, inited, thr, poisoned>>

\* create_group arguments: <<key packages, member pubkeys, creator, admins, relays>>
CreateInputs ==
    {<<(<<"kA", "kB">>), (<<"A", "B">>), "C", (<<"C">>), (<<"wss://r">>)>>,
     <<(<<"kA">>), (<<"A">>), "C", (<<"C", "A">>), (<<"wss://r">>)>>,
     <<(<<"kB">>), (<<"B">>), "C", (<<"B">>), (<<>>)>>,
     <<(<<>>), (<<>>), "C", (<<>>), (<<>>)>>,
     <<(<<"kA">>), (<<"A", "B">>), "C", (<<"C">>), (<<>>)>>,
     <<(<<"kA", "kB">>), (<<"A">>), "C", (<<"C">>), (<<>>)>>,
     <<(<<"kA">>), (<<"A">>), "C", (<<"B">>), (<<>>)>>,
     <<(<<"kA", "kA">>), (<<"A", "B">>), "C", (<<>>), (<<>>)>>,
     <<(<<"bad">>), (<<"A">>), "C", (<<"C">>), (<<>>)>>,
     <<(<<"kA">>), (<<"bad">>), "C", (<<"C">>), (<<>>)>>,
     <<(<<"kA">>), (<<"A">>), "bad", (<<"A">>), (<<>>)>>,
     <<(<<"kA">>), (<<"A">>), "C", (<<"bad">>), (<<>>)>>,
     <<(<<"kA">>), (<<"A">>), "C", (<<"C">>), (<<"bad">>)>>}
KpSeqInputs == {<<>>, <<"kA">>, <<"kB">>, <<"kA", "kB">>, <<"kB", "kA">>,
                <<"kA", "kA">>, <<"bad">>, <<"kA", "bad">>}
RelayInputs == {<<>>, <<"wss://r">>, <<"bad">>}
RemoveInputs == {<<>>, <<"A">>, <<"B">>, <<"C">>, <<"A", "B">>, <<"B", "C">>,
                 <<"A", "B", "C">>, <<"bad">>}
SmallSets == {{}} \cup {{x} : x \in Pubkeys}

\* Events the transport can deliver: application messages and commits of
\* any group and epoch, made by the other parties.
AppEvents ==
    {AppEvent(g, e, from, UnsignedEvent_from_json(p)) :
        g \in Gids, e \in 0..MaxEpoch, from \in Pubkeys, p \in Payloads}
CommitEvents ==
    {CommitEvent(c[1], c[2], c[3], c[4], c[5]) :
        c \in {x \in Gids \X (0..MaxEpoch) \X {"A", "B"} \X SmallSets \X SmallSets :
                  x[4] = {} \/ x[5] = {}}}
SerializedCommitInputs ==
    {CommitEvent(g, 0, "C", {}, {"B"}) : g \in Gids}
ProposalEvents ==
    {ProposalEvent(g, e, from, from) : g \in Gids, e \in 0..MaxEpoch, from \in Pubkeys}
EventInputs == AppEvents \cup CommitEvents \cup ProposalEvents \cup {BadEvent}

\* the string the transport delivers for an event
Wire(ev) == IF ev.kind = "bad" THEN BadJson ELSE Event_to_json(ev)

\* A message of the current epoch of a stored group can only come from
\* a current member; a commit of the local identity is applied when it is
\* made, so a commit under the current key comes from another member.
CanExist(st, ev) ==
    st.session # NoSession /\ HasGroup(st.groups[st.session], ev.gid)
      /\ ev.epoch = Row(st.groups[st.session], ev.gid).epoch
    => /\ ev.sender \in Row(st.groups[st.session], ev.gid).members
       /\ ev.kind = "commit" => ev.sender # Row(st.groups[st.session], ev.gid).me

ProposalInputs ==
    {RemoveProposal(e, who) : e \in 0..MaxEpoch, who \in Pubkeys}
    \cup {AddProposal(e, k) : e \in 0..MaxEpoch, k \in KPs}
    \cup {BadProposal}

\* Welcomes the transport can deliver: to a group created elsewhere,
\* addressed to key package kB; one structurally broken, one not JSON.
WelcomeInputs ==
    {Welcome("g2", 0, {"A", "B"}, {"A"}, "kB", TRUE, TRUE),
     Welcome("g2", 0, {"A", "B"}, {"A"}, "kB", FALSE, TRUE),
     Welcome("g2", 0, {"A", "B"}, {"A"}, "kB", TRUE, FALSE)}

\* The key package create_key_package_for_event would make is in the universe.
CanCreateKp(st, pk) ==
    st.session # NoSession /\ pk \in Pubkeys
    => \E k \in KPs : KpOwner[k] = pk /\ st.kp[st.session][k] = KpNone

\* The group id create_group would draw is in the universe.
CanCreateGroup(st) == st.session # NoSession => FreshGids(st.groups[st.session]) # {}

Call_get_ciphersuite == Apply(get_ciphersuite(Cur))
Call_get_extensions == Apply(get_extensions(Cur))

Call_create_key_package_for_event ==
    \E pk \in PkStrings, relay \in RelayInputs :
        CanCreateKp(Cur, pk) /\ Apply(create_key_package_for_event(Cur, pk, relay))

Call_create_group(io) ==
    \E a \in CreateInputs :
        CanCreateGroup(Cur) /\ Apply(create_group(Cur, a[1], a[2], a[3], a[4], a[5], io))

Call_create_message_for_group ==
    \E g \in Gids, rumor \in RumorStrings : Apply(create_message_for_group(Cur, g, rumor))

Call_create_commit_message_for_group ==
    \E g \in Gids, c \in SerializedCommitInputs :
        Apply(create_commit_message_for_group(Cur, g, c))

Call_export_secret == \E g \in Gids : Apply(export_secret(Cur, g))

Call_process_message_for_group ==
    \E ev \in EventInputs :
        CanExist(Cur, ev) /\ Apply(process_message_for_group(Cur, Wire(ev)))

Call_preview_group_from_welcome ==
    \E idok \in BOOLEAN, w \in WelcomeInputs :
        Apply(preview_group_from_welcome(Cur, idok, w))

Call_join_group_from_welcome(io) ==
    \E idok \in BOOLEAN, w \in WelcomeInputs :
        Apply(join_group_from_welcome(Cur, idok, w, io))

Call_get_members(io) == \E g \in Gids : Apply(get_members(Cur, g, io))
Call_get_group(iog, io) == \E g \in Gids : Apply(get_group(Cur, g, iog, io))

Call_add_members ==
    \E g \in Gids, kps \in KpSeqInputs : Apply(add_members(Cur, g, kps))

Call_remove_members ==
    \E g \in Gids, pks \in RemoveInputs : Apply(remove_members(Cur, g, pks))

Call_commit_proposal ==
    \E g \in Gids, prop \in ProposalInputs : Apply(commit_proposal(Cur, g, prop))

Call_leave_group == \E g \in Gids : Apply(leave_group(Cur, g))

Next ==
    \/ \E db \in DbPaths : init_nostr_mls_lock(db)
    \/ \E openable \in BOOLEAN : init_nostr_mls_step(openable)
    \/ Call_get_ciphersuite
    \/ Call_get_extensions
    \/ Call_create_key_package_for_event
    \/ \E io \in BOOLEAN : Call_create_group(io)
    \/ Call_create_message_for_group
    \/ Call_create_commit_message_for_group
    \/ Call_export_secret
    \/ Call_process_message_for_group
    \/ Call_preview_group_from_welcome
    \/ \E io \in BOOLEAN : Call_join_group_from_welcome(io)
    \/ \E io \in BOOLEAN : Call_get_members(io)
    \/ \E iog \in BOOLEAN, io \in BOOLEAN : Call_get_group(iog, io)
    \/ Call_add_members
    \/ Call_remove_members
    \/ Call_commit_proposal
    \/ Call_leave_group

Spec == Init /\ [][Next]_vars

(***************************************************************************)
(* Threads.  Every public operation starts with NOSTR_MLS.lock() and keeps *)
(* the guard until it returns.  A thread's call is three steps: the call   *)
(* (the thread blocks in lock()), the acquisition (it reads the session)   *)
(* and the return (what the body computed from what it read is in the      *)
(* storage, the guard is dropped).                                         *)
(***************************************************************************)
Call(op, g, keys) == [op |-> op, g |-> g, keys |-> keys]

ThreadCalls ==
    {Call("create_key_package_for_event", "none", <<"A">>),
     Call("create_key_package_for_event", "none", <<"B">>),
     Call("create_group", "none", <<"kA">>),
     Call("add_members", "g1", <<"kB">>),
     Call("remove_members", "g1", <<"A">>),
     Call("join_group_from_welcome", "g2", << >>),
     Call("remove_members", "g2", <<"A">>),
     Call("get_members", "g1", << >>)}

CommitOps == {"add_members", "remove_members", "commit_proposal"}

\* The body of the call c run on the state st.
Exec(c, st) ==
    CASE c.op = "create_key_package_for_event" ->
            create_key_package_for_event(st, c.keys[1], << >>)
      [] c.op = "create_group" ->
            create_group(st, c.keys, [i \in 1..Len(c.keys) |-> KpOwner[c.keys[i]]],
                         "C", <<"C">>, << >>, TRUE)
      [] c.op = "add_members" -> add_members(st, c.g, c.keys)
      [] c.op = "remove_members" -> remove_members(st, c.g, c.keys)
      [] c.op = "join_group_from_welcome" ->
            join_group_from_welcome(st, TRUE,
                Welcome(c.g, 0, {"A", "B"}, {"A"}, "kB", TRUE, TRUE), TRUE)
      [] OTHER -> get_members(st, c.g, TRUE)

\* The call stays within the modelled universe.
InUniverse(c, st) ==
    /\ c.op = "create_key_package_for_event" => CanCreateKp(st, c.keys[1])
    /\ c.op = "create_group" => CanCreateGroup(st)
    /\ EpochsBounded(Exec(c, st).st.groups)

T_call(t, c) ==
    /\ thr[t].pc = "idle"
    /\ thr' = [thr EXCEPT ![t] = [pc |-> "waiting", call |-> c, snap |-> NoSnap,
                                  overlap |-> ipc > 0]]
    /\ UNCHANGED <<session, handles, ipc, iarg, groups, kp, inited, poisoned, lastlock>>

T_acquire(t) ==
    /\ thr[t].pc = "waiting"
    /\ LockFree /\ ~poisoned
    /\ InUniverse(thr[t].call, Cur)
    /\ thr' = [thr EXCEPT ![t].pc = "in", ![t].snap = Cur]
    /\ lastlock' = "acquired"
    /\ UNCHANGED <<session, handles, ipc, iarg, groups, kp, inited, poisoned>>

T_return(t) ==
    /\ thr[t].pc = "in"
    /\ LET r == Exec(thr[t].call, thr[t].snap)
       IN /\ groups' = r.st.groups
          /\ kp' = r.st.kp
    /\ thr' = [thr EXCEPT ![t] = Idle]
    /\ UNCHANGED <<session, handles, ipc, iarg, inited, poisoned, lastlock>>

NextMT ==
    \/ \E db \in DbPaths : init_nostr_mls_lock(db)
    \/ \E openable \in BOOLEAN : init_nostr_mls_step(openable)
    \/ \E t \in Threads, c \in ThreadCalls : T_call(t, c)
    \/ \E t \in Threads : T_acquire(t)
    \/ \E t \in Threads : T_return(t)

SpecMT == Init /\ [][NextMT]_vars

(***************************************************************************)
(* Lock failure.  NOSTR_MLS is a std::sync::Mutex: lock() blocks while     *)
(* another thread holds the guard and returns Err only when the mutex is   *)
(* poisoned, that is, after a thread panicked while holding the guard.     *)
(* Nothing in mls_api.rs clears the poison.                                *)
(***************************************************************************)
\* What a call that panics between its lock() and its return can leave in
\* the storage: nothing, when it panics before its engine call has written,
\* or what the call writes, when it panics after that (create_group in the
\* member lookup that follows the creation, any call in building its JSON).
PanicOutcomes ==
    {Cur}
    \cup {create_key_package_for_event(Cur, pk, relay).st :
             pk \in {p \in PkStrings : CanCreateKp(Cur, p)}, relay \in RelayInputs}
    \cup (IF CanCreateGroup(Cur)
          THEN {create_group(Cur, a[1], a[2], a[3], a[4], a[5], io).st :
                   a \in CreateInputs, io \in BOOLEAN}
          ELSE {})
    \cup {process_message_for_group(Cur, Wire(ev)).st : ev \in {e \in EventInputs : CanExist(Cur, e)}}
    \cup {join_group_from_welcome(Cur, idok, w, io).st :
             idok \in BOOLEAN, w \in WelcomeInputs, io \in BOOLEAN}
    \cup {add_members(Cur, g, kps).st : g \in Gids, kps \in KpSeqInputs}
    \cup {remove_members(Cur, g, pks).st : g \in Gids, pks \in RemoveInputs}
    \cup {commit_proposal(Cur, g, prop).st : g \in Gids, prop \in ProposalInputs}

\* A call of a public operation other than init_nostr_mls panics between its
\* lock() and its return: the guard is dropped by the unwinding and the
\* mutex is poisoned; the session stays in NOSTR_MLS.
Call_panics ==
    /\ LockFree /\ ~poisoned
    /\ \E s \in PanicOutcomes :
          /\ EpochsBounded(s.groups)
          /\ groups' = s.groups
          /\ kp' = s.kp
    /\ poisoned' = TRUE
    /\ lastlock' = "acquired"
    /\ UNCHANGED <<session, handles, ipc, iarg, inited, thr>>

\* init_nostr_mls panics while it holds the guard.  In drop(old_mls) the
\* take() has emptied NOSTR_MLS and the unwinding releases the old storage;
\* in new_with_password or NostrMls::new the prior session is already gone
\* and a storage that was opened is dropped by the unwinding.  NOSTR_MLS is
\* left None and the mutex poisoned.
init_nostr_mls_panics ==
    /\ ipc > 0
    /\ session' = NoSession
    /\ handles' = CASE InitOrder[ipc] = "drop" ->
                        IF session = NoSession THEN handles
                        ELSE [handles EXCEPT ![session] = @ - 1]
                   [] InitOrder[ipc] = "open" -> handles
                   [] OTHER -> [handles EXCEPT ![iarg] = @ - 1]
    /\ ipc' = 0
    /\ iarg' = "none"
    /\ poisoned' = TRUE
    /\ UNCHANGED <<groups, kp, inited, thr, lastlock>>

\* `.lock().map_err(|_| anyhow!("Failed to acquire NOSTR_MLS lock"))?` of any
\* public operation on the poisoned mutex: the call returns the error.
Call_lock_fails ==
    /\ LockFree /\ poisoned
    /\ lastlock' = "failed"
    /\ UNCHANGED <<session, handles, ipc, iarg, groups, kp, inited, thr, poisoned>>

NextPoison == Next \/ Call_panics \/ init_nostr_mls_panics \/ Call_lock_fails

\* Callers keep calling: a call that can be made is eventually made.
SpecPoison == Init /\ [][NextPoison]_vars /\ WF_vars(NextPoison)

(***************************************************************************)
(* Properties                                                              *)
(***************************************************************************)
IsOk(r) == r.ret.msg = "ok"
Has(st, g) == st.session # NoSession /\ HasGroup(st.groups[st.session], g)
RowIn(st, g) == Row(st.groups[st.session], g)

\* every stored group keeps its epoch across the call
EpochsKept(st, r) ==
    \A g \in Gids : Has(st, g) => Has(r.st, g) /\ RowIn(r.st, g).epoch = RowIn(st, g).epoch

\* r, the result of a commit call on group g in state st: success moves g
\* from epoch N to N+1 and no other group's epoch; failure moves none
CommitAdvances(st, g, r) ==
    IF IsOk(r)
    THEN /\ Has(st, g) /\ Has(r.st, g)
         /\ RowIn(r.st, g).epoch = RowIn(st, g).epoch + 1
         /\ r.ret.out.epoch = RowIn(st, g).epoch + 1
         /\ \A h \in Gids \ {g} :
               Has(st, h) => Has(r.st, h) /\ RowIn(r.st, h).epoch = RowIn(st, h).epoch
    ELSE EpochsKept(st, r)

C1_Calls ==
    /\ \A g \in Gids :
         /\ \A kps \in KpSeqInputs : CommitAdvances(Cur, g, add_members(Cur, g, kps))
         /\ \A pks \in RemoveInputs : CommitAdvances(Cur, g, remove_members(Cur, g, pks))
         /\ \A prop \in ProposalInputs : CommitAdvances(Cur, g, commit_proposal(Cur, g, prop))
    /\ \A ev \in EventInputs :
         CanExist(Cur, ev) =>
            LET r == process_message_for_group(Cur, Wire(ev))
            IN IF IsOk(r) /\ r.ret.out.changes
               THEN CommitAdvances(Cur, ev.gid, r)
               ELSE EpochsKept(Cur, r)
    /\ CanCreateGroup(Cur) =>
         \A a \in CreateInputs :
            LET r == create_group(Cur, a[1], a[2], a[3], a[4], a[5], TRUE)
            IN /\ EpochsKept(Cur, r)
               /\ IsOk(r) => /\ ~Has(Cur, r.ret.out.gid)
                             /\ Has(r.st, r.ret.out.gid)
                             /\ RowIn(r.st, r.ret.out.gid).epoch = 0

C1_Step ==
    \A d \in DbPaths : \A g \in Gids :
        /\ HasGroup(groups[d], g) =>
              /\ HasGroup(groups'[d], g)
              /\ Row(groups'[d], g).epoch \in {Row(groups[d], g).epoch,
                                              Row(groups[d], g).epoch + 1}
        /\ ~HasGroup(groups[d], g) /\ HasGroup(groups'[d], g) /\ g \in LocalGids =>
              Row(groups'[d], g).epoch = 0

\* C1: epoch monotonicity.  A created group starts at epoch 0; every
\* successful add_members, remove_members, commit_proposal and every commit
\* applied by process_message_for_group takes its group from epoch N to
\* exactly N+1; failed calls leave every epoch as it was; and no step of the
\* system lowers an epoch, removes a group or advances an epoch by more than 1.
C1_EpochMonotonicity == [](C1_Calls) /\ [][C1_Step]_vars

\* C1 witness: a created group and a joined group, each advanced by a commit.
C1_Witness ==
    /\ session # NoSession
    /\ HasGroup(groups[session], "g1") /\ Row(groups[session], "g1").epoch = 1
    /\ HasGroup(groups[session], "g2") /\ Row(groups[session], "g2").epoch = 1

\* C2: key package single-use.  No key package is ever consumed twice; and
\* once a key package is consumed, every add_members or create_group call
\* that supplies it fails and changes nothing: add_members with
\* InvalidKeyPackage (on a group the caller is a member of), create_group
\* with a creation failure (when its arguments parse).
C2_KeyPackageSingleUse ==
    /\ \A d \in DbPaths : \A k \in KPs : kp[d][k].used <= 1
    /\ session # NoSession =>
         \A k \in KPs : kp[session][k].used >= 1 =>
            /\ \A g \in Gids : \A kps \in KpSeqInputs :
                  k \in Range(kps) =>
                     LET r == add_members(Cur, g, kps)
                     IN /\ ~IsOk(r) /\ r.st = Cur
                        /\ Has(Cur, g) /\ RowIn(Cur, g).me \in RowIn(Cur, g).members
                              => r.ret.cause = "InvalidKeyPackage"
            /\ CanCreateGroup(Cur) =>
                 \A a \in CreateInputs :
                    k \in Range(a[1]) =>
                       LET r == create_group(Cur, a[1], a[2], a[3], a[4], a[5], TRUE)
                       IN /\ ~IsOk(r) /\ r.st = Cur
                          /\ r.ret.cause = "InvalidInput"
                             \/ (r.ret.msg = "Failed to parse key package")
                             \/ (r.ret.msg = "Failed to create group"
                                 /\ r.ret.cause = "GroupCreationError")

\* C2 witness: kA was consumed by add_members on the joined group, no group
\* has been created yet, so both a second add_members and a create_group
\* with kA are possible calls.
C2_Witness ==
    /\ session # NoSession /\ ipc = 0
    /\ kp[session]["kA"].used = 1
    /\ Has(Cur, "g2") /\ "B" \in RowIn(Cur, "g2").members
    /\ ~Has(Cur, "g1")

\* C3: admin subset invariant.  In every stored group of every storage the
\* admin set is a subset of the member set.
C3_AdminSubset ==
    \A d \in DbPaths : \A i \in 1..Len(groups[d]) :
        groups[d][i].admins \subseteq groups[d][i].members

\* C3 witness: the created group had admins C and A, and a commit removed
\* the admin C.
C3_Witness ==
    /\ session # NoSession /\ Has(Cur, "g1")
    /\ RowIn(Cur, "g1").admins = {"A"}
    /\ RowIn(Cur, "g1").epoch = 1
    /\ "C" \notin RowIn(Cur, "g1").members

NoDuplicateRows(gs) ==
    \A i, j \in 1..Len(gs) : gs[i].gid = gs[j].gid => i = j

\* C4: welcome idempotence.  No storage ever holds two GroupState rows of
\* one group id; and when join_group_from_welcome succeeds, the same call
\* repeated right after it is either rejected with WelcomeAlreadyProcessed
\* or returns the same group id and members, and leaves the state as the
\* first call left it.
C4_WelcomeIdempotence ==
    /\ \A d \in DbPaths : NoDuplicateRows(groups[d])
    /\ \A idok \in BOOLEAN, w \in WelcomeInputs :
         LET r1 == join_group_from_welcome(Cur, idok, w, TRUE)
             r2 == join_group_from_welcome(r1.st, idok, w, TRUE)
         IN IsOk(r1) =>
              /\ r2.st = r1.st
              /\ NoDuplicateRows(r2.st.groups[r2.st.session])
              /\ \/ ~IsOk(r2) /\ r2.ret.cause = "WelcomeAlreadyProcessed"
                 \/ /\ IsOk(r2)
                    /\ r2.ret.out.gid = r1.ret.out.gid
                    /\ r2.ret.out.members = r1.ret.out.members

\* C4 witness: the group of a welcome is stored, and joining from that
\* welcome again is rejected as already processed.
C4_Witness ==
    /\ Has(Cur, "g2")
    /\ \E w \in WelcomeInputs :
          join_group_from_welcome(Cur, TRUE, w, TRUE).ret.cause = "WelcomeAlreadyProcessed"

\* C5: preview is side-effect-free.  preview_group_from_welcome, succeeding
\* or failing, leaves the session, every GroupState and every key package as
\* they were; after a successful preview of a welcome whose group is not
\* stored, get_group on that group reports "Group not found" and
\* join_group_from_welcome with the same welcome succeeds.
C5_PreviewNoSideEffect ==
    \A idok \in BOOLEAN, w \in WelcomeInputs :
        LET p == preview_group_from_welcome(Cur, idok, w)
        IN /\ p.st = Cur
           /\ IsOk(p) /\ ~Has(Cur, w.gid) =>
                /\ get_group(p.st, w.gid, TRUE, TRUE).ret.msg = "Group not found"
                /\ get_group(p.st, w.gid, TRUE, TRUE).ret.cause = "GroupNotFound"
                /\ IsOk(join_group_from_welcome(p.st, idok, w, TRUE))

\* C5 witness: a welcome can be previewed successfully while its group is
\* not stored.
C5_Witness ==
    /\ ipc = 0 /\ ~Has(Cur, "g2")
    /\ \E w \in WelcomeInputs : IsOk(preview_group_from_welcome(Cur, TRUE, w))

IsMember(st, g) == Has(st, g) /\ RowIn(st, g).me \in RowIn(st, g).members
\* The state of a member s of group g that holds the group as the local
\* store does: what the local store has of g, seen from s.
PeerState(st, g, s) ==
    [st EXCEPT !.groups[st.session] = PutRow(@, g, [Row(@, g) EXCEPT !.me = s])]

\* r, the result of a decryption in state st, is a failure of kind cause
\* that returns no payload and changes nothing
Rejected(st, r, cause) ==
    /\ ~IsOk(r) /\ r.ret.msg = "Failed to process message" /\ r.ret.cause = cause
    /\ r.ret.out.payload = "none" /\ ~r.ret.out.changes
    /\ r.st = st

\* every stored group holds the secret its epoch's key schedule gives
SecretsFollowEpochs ==
    \A d \in DbPaths : \A i \in 1..Len(groups[d]) :
        groups[d][i].secret = EpochKey(groups[d][i].gid, groups[d][i].epoch)

\* the round trip of C6 for a receiver that is a member: sender S is any
\* member holding the group at the receiver's epoch
RoundTrip(g) ==
    \A sender \in Pubkeys, p \in Payloads :
        IsMember(Cur, g) /\ sender \in RowIn(Cur, g).members =>
            LET s == create_message_for_group(PeerState(Cur, g, sender), g, p)
                r == process_message_for_group(Cur, s.ret.out.event_json)
            IN /\ IsOk(s)
               /\ Event_from_str(s.ret.out.event_json).sender = sender
               /\ Event_from_str(s.ret.out.event_json).payload # UnsignedEvent_from_json(p)
               /\ IsOk(r) /\ r.ret.out.payload = p /\ ~r.ret.out.changes
               /\ r.st = Cur

MismatchRejected(st, ev) ==
    Rejected(st, process_message_for_group(st, Wire(ev)), "EpochMismatch")

\* C7: epoch mismatch on decrypt.  process_message_for_group of a message
\* of a stored group (application message, commit or proposal) that was made
\* at another epoch than the group's current one, stale or future, fails
\* with EpochMismatch, returns no payload and no member changes, and leaves
\* the state unchanged; in particular when C has removed B at epoch 0, a
\* message B made at epoch 0 fails for C while a message A makes at epoch 1
\* decrypts for C.
C7_EpochMismatch ==
    /\ \A ev \in AppEvents \cup CommitEvents \cup ProposalEvents :
          Has(Cur, ev.gid) /\ ev.epoch # RowIn(Cur, ev.gid).epoch
             => MismatchRejected(Cur, ev)
    /\ IsMember(Cur, "g1") /\ RowIn(Cur, "g1").epoch = 1
          /\ RowIn(Cur, "g1").me = "C" /\ RowIn(Cur, "g1").members = {"A", "C"}
          => \A p \in Payloads :
                LET a == create_message_for_group(PeerState(Cur, "g1", "A"), "g1", p)
                    r == process_message_for_group(Cur, a.ret.out.event_json)
                IN /\ MismatchRejected(Cur, AppEvent("g1", 0, "B", UnsignedEvent_from_json(p)))
                   /\ IsOk(a) /\ IsOk(r) /\ r.ret.out.payload = p

\* C7 witness: C created the group with A and B, and B was removed at epoch 0.
C7_Witness ==
    /\ ipc = 0
    /\ IsMember(Cur, "g1") /\ RowIn(Cur, "g1").epoch = 1
    /\ RowIn(Cur, "g1").me = "C" /\ RowIn(Cur, "g1").members = {"A", "C"}
    /\ kp[session]["kB"].used = 1

KpConsumed(st, r, ks) ==
    \A k \in KPs :
        r.st.kp[st.session][k] =
            IF k \in ks THEN [stored |-> FALSE, used |-> st.kp[st.session][k].used + 1]
            ELSE st.kp[st.session][k]

\* r, the result of a commit call on g that adds add, removes rem and
\* supplies the key packages ks: all of it is recorded, or nothing is
AllOrNothing(st, g, r, add, rem, ks) ==
    IF IsOk(r)
    THEN /\ Has(st, g) /\ Has(r.st, g)
         /\ RowIn(r.st, g).epoch = RowIn(st, g).epoch + 1
         /\ RowIn(r.st, g).members = (RowIn(st, g).members \ rem) \cup add
         /\ KpConsumed(st, r, ks)
         /\ \A h \in Gids \ {g} : Has(st, h) => Has(r.st, h) /\ RowIn(r.st, h) = RowIn(st, h)
    ELSE r.st = st

\* C8: commit atomicity.  add_members, remove_members and commit_proposal
\* either succeed, and then the group is at epoch+1 with the member set
\* updated and exactly the supplied key packages consumed, or fail, and then
\* the session, every group (epoch, members, admins) and every key package
\* are exactly as before the call.
C8_CommitAtomicity ==
    session # NoSession =>
    \A g \in Gids :
        /\ \A kps \in KpSeqInputs :
              AllOrNothing(Cur, g, add_members(Cur, g, kps),
                           {KpOwner[k] : k \in Range(kps) \cap KPs}, {}, Range(kps))
        /\ \A pks \in RemoveInputs :
              AllOrNothing(Cur, g, remove_members(Cur, g, pks), {}, Range(pks), {})
        /\ \A prop \in ProposalInputs :
              AllOrNothing(Cur, g, commit_proposal(Cur, g, prop),
                           IF prop.kind = "add" THEN {prop.who} ELSE {},
                           IF prop.kind = "remove" THEN {prop.who} ELSE {},
                           IF prop.kind = "add" THEN {prop.kp} ELSE {})

\* C8 witness: a commit has been applied to the created group, and an
\* add_members call with one usable and one consumed key package fails.
C8_Witness ==
    /\ ipc = 0
    /\ IsMember(Cur, "g1") /\ RowIn(Cur, "g1").epoch = 1
    /\ kp[session]["kB"].stored /\ kp[session]["kA"].used = 1
    /\ add_members(Cur, "g1", <<"kB", "kA">>).ret.cause = "InvalidKeyPackage"

Refused(r) ==
    /\ r.ret.msg = "NostrMls is not initialized"
    /\ r.st = Cur

\* C9: not initialized.  While no session is active, each of the sixteen
\* operations other than init_nostr_mls fails with "NostrMls is not
\* initialized", whatever its arguments (well-formed or not), and leaves the
\* state unchanged.
C9_NotInitialized ==
    session = NoSession =>
    /\ Refused(get_ciphersuite(Cur))
    /\ Refused(get_extensions(Cur))
    /\ \A pk \in PkStrings, relay \in RelayInputs :
          Refused(create_key_package_for_event(Cur, pk, relay))
    /\ \A a \in CreateInputs, io \in BOOLEAN :
          Refused(create_group(Cur, a[1], a[2], a[3], a[4], a[5], io))
    /\ \A g \in Gids :
          /\ \A rumor \in RumorStrings : Refused(create_message_for_group(Cur, g, rumor))
          /\ \A c \in SerializedCommitInputs : Refused(create_commit_message_for_group(Cur, g, c))
          /\ Refused(export_secret(Cur, g))
          /\ \A iog \in BOOLEAN, io \in BOOLEAN :
                Refused(get_members(Cur, g, io)) /\ Refused(get_group(Cur, g, iog, io))
          /\ \A kps \in KpSeqInputs : Refused(add_members(Cur, g, kps))
          /\ \A pks \in RemoveInputs : Refused(remove_members(Cur, g, pks))
          /\ \A prop \in ProposalInputs : Refused(commit_proposal(Cur, g, prop))
          /\ Refused(leave_group(Cur, g))
    /\ \A ev \in EventInputs : Refused(process_message_for_group(Cur, Wire(ev)))
    /\ \A idok \in BOOLEAN, w \in WelcomeInputs :
          /\ Refused(preview_group_from_welcome(Cur, idok, w))
          /\ \A io \in BOOLEAN : Refused(join_group_from_welcome(Cur, idok, w, io))

\* C9 witness: no session is active and no init is running, after an
\* earlier session has stored a group and a key package.
C9_Witness ==
    /\ session = NoSession /\ ipc = 0
    /\ \E d \in DbPaths : Len(groups[d]) > 0 /\ \E k \in KPs : kp[d][k].stored

RECURSIVE SumHandles(_)
SumHandles(ds) ==
    IF ds = {} THEN 0
    ELSE LET d == CHOOSE x \in ds : TRUE IN handles[d] + SumHandles(ds \ {d})

\* C10: re-initialization ordering.  At most one storage handle is open at
\* any time, over all paths; the active session holds exactly one; and at
\* every point of an init_nostr_mls call before the new storage is opened
\* none is open.
C10_SingleHandle ==
    /\ SumHandles(DbPaths) <= 1
    /\ session # NoSession => handles[session] = 1
    /\ session = NoSession /\ SumHandles(DbPaths) = 1 => ipc > 0 /\ InitOrder[ipc] = "store"

\* C10 witness: an init has opened the storage a previous session had
\* written, and has not yet stored the new session.
C10_Witness ==
    /\ ipc > 0 /\ InitOrder[ipc] = "store"
    /\ handles[iarg] = 1
    /\ Len(groups[iarg]) > 0

Executing == {t \in Threads : thr[t].pc = "in"}

C11_Exclusive ==
    /\ Cardinality(Executing) + (IF ipc > 0 THEN 1 ELSE 0) <= 1
    /\ \A t \in Executing : thr[t].snap = Cur

C11_Serial ==
    groups' # groups \/ kp' # kp =>
        \E t \in Executing :
            /\ thr'[t].pc = "idle"
            /\ groups' = Exec(thr[t].call, Cur).st.groups
            /\ kp' = Exec(thr[t].call, Cur).st.kp

\* C11: session-level mutual exclusion.  Under every interleaving of the
\* threads' calls at most one call (init_nostr_mls included) is between its
\* lock() and its return; what it read there is still the state when it
\* returns; and every change of the storage is the return of one call, equal
\* to running that call alone on the state of that moment, so that the
\* changes are those of the calls taken in the order of their returns.
C11_MutualExclusion == [](C11_Exclusive) /\ [][C11_Serial]_vars

\* C11 witness: a thread is inside a commit on a stored group while the
\* other thread waits in lock() with a commit on the same group.
C11_Witness ==
    \E t \in Threads, u \in Threads :
        /\ thr[t].pc = "in" /\ thr[u].pc = "waiting"
        /\ thr[t].call.op \in CommitOps /\ thr[u].call.op \in CommitOps
        /\ thr[t].call.g = thr[u].call.g /\ thr[t].call # thr[u].call
        /\ Has(Cur, thr[t].call.g) /\ IsOk(Exec(thr[t].call, Cur))

\* C12: re-initialization is atomic for concurrent callers.  Once an init
\* has succeeded, an operation whose call was concurrent with an
\* init_nostr_mls call finds a session when it has the lock.
C12_ReinitAtomic ==
    \A t \in Threads :
        inited /\ thr[t].pc = "in" /\ thr[t].overlap => thr[t].snap.session # NoSession

\* r, the result of a creation or join call in state st: an error leaves the
\* storage as it was; a success returns the stored group's member list
FailsAsAWhole(st, r) ==
    IF IsOk(r)
    THEN /\ Has(r.st, r.ret.out.gid)
         /\ r.ret.out.members = RowIn(r.st, r.ret.out.gid).members
         /\ r.ret.out.members # {}
    ELSE r.st = st

\* C13: group creation and join fail as a whole.  Whenever create_group or
\* join_group_from_welcome returns an error, also when it is the member
\* lookup after the creation or join step that fails, no GroupState has
\* been stored and no key package consumed; and a success carries the
\* stored member list, never an empty one.
C13_FailAsAWhole ==
    session # NoSession =>
    /\ CanCreateGroup(Cur) =>
          \A a \in CreateInputs, io \in BOOLEAN :
              FailsAsAWhole(Cur, create_group(Cur, a[1], a[2], a[3], a[4], a[5], io))
    /\ \A idok \in BOOLEAN, w \in WelcomeInputs, io \in BOOLEAN :
          FailsAsAWhole(Cur, join_group_from_welcome(Cur, idok, w, io))

\* every stored group is the same row (epoch, members, admins) after the call
GroupsKept(st, r) ==
    \A g \in Gids : Has(st, g) => Has(r.st, g) /\ RowIn(r.st, g) = RowIn(st, g)

C14_Calls ==
    session # NoSession =>
    /\ \A g \in Gids :
          /\ LET r == leave_group(Cur, g)
             IN /\ GroupsKept(Cur, r)
                /\ IsOk(r) => /\ r.ret.out.removed = {RowIn(Cur, g).me}
                              /\ RowIn(Cur, g).me \in RowIn(r.st, g).members
          /\ \A rumor \in RumorStrings : GroupsKept(Cur, create_message_for_group(Cur, g, rumor))
          /\ GroupsKept(Cur, export_secret(Cur, g))
          /\ \A iog \in BOOLEAN, io \in BOOLEAN :
                /\ GroupsKept(Cur, get_group(Cur, g, iog, io))
                /\ GroupsKept(Cur, get_members(Cur, g, io))
    /\ \A idok \in BOOLEAN, w \in WelcomeInputs :
          GroupsKept(Cur, preview_group_from_welcome(Cur, idok, w))
    /\ \A pk \in PkStrings, relay \in RelayInputs :
          CanCreateKp(Cur, pk) => GroupsKept(Cur, create_key_package_for_event(Cur, pk, relay))

\* a step that changes a stored group's row is a commit: its epoch advances
C14_Step ==
    \A d \in DbPaths : \A g \in Gids :
        HasGroup(groups[d], g) =>
            /\ HasGroup(groups'[d], g)
            /\ \/ Row(groups'[d], g) = Row(groups[d], g)
               \/ Row(groups'[d], g).epoch = Row(groups[d], g).epoch + 1

\* C14: only commit application changes a group.  leave_group returns the
\* leave message of the local identity and leaves every stored group's
\* epoch, member set and admin set as they were, the leaver still a member;
\* create_message_for_group, export_secret, get_group, get_members,
\* preview_group_from_welcome and create_key_package_for_event leave every
\* stored group as it was; and a step of the system changes a stored
\* group's members or admins only together with an advance of its epoch.
C14_OnlyCommitsChange == [](C14_Calls) /\ [][C14_Step]_vars

\* C14 witness: the local identity is one of several members of a group
\* that a commit has advanced, and leave_group succeeds there.
C14_Witness ==
    /\ LockFree
    /\ IsMember(Cur, "g1") /\ RowIn(Cur, "g1").epoch = 1
    /\ Cardinality(RowIn(Cur, "g1").members) > 1
    /\ IsOk(leave_group(Cur, "g1"))

\* C15: the decrypt result is never empty.  Every successful
\* process_message_for_group returns a message or membership changes:
\* "message" and "added_members"/"removed_members" are not all null.
C15_ResultNeverEmpty ==
    \A ev \in EventInputs :
        CanExist(Cur, ev) =>
            LET r == process_message_for_group(Cur, Wire(ev))
            IN IsOk(r) => r.ret.out.payload # "none" \/ r.ret.out.changes

\* the create_group arguments a all parse
WellFormed(a) ==
    /\ AllIn(a[1], KPs) /\ AllIn(a[2], Pubkeys) /\ a[3] \in Pubkeys
    /\ AllIn(a[4], Pubkeys) /\ AllIn(a[5], RelayUrls)

\* the create_group arguments a are ones the claim says must be refused
Refusable(st, a) ==
    \/ Len(a[1]) # Len(a[2])
    \/ \E i \in 1..Len(a[4]) : a[4][i] # a[3] /\ a[4][i] \notin Range(a[2])
    \/ \E i \in 1..Len(a[1]) : a[1][i] \notin KPs \/ ~st.kp[st.session][a[1][i]].stored

\* C16: create_group validation.  create_group fails, creating no group and
\* consuming no key package, whenever the numbers of member public keys and
\* key packages differ, or an admin is neither the creator nor a member
\* public key, or a key package is invalid or already consumed, and when
\* all arguments parse the failure is the engine's creation error ("Failed
\* to create group"); when it succeeds the new group is stored at epoch 0
\* and exactly the supplied key packages are consumed.
C16_CreateValidation ==
    session # NoSession /\ CanCreateGroup(Cur) =>
    \A a \in CreateInputs, io \in BOOLEAN :
        LET r == create_group(Cur, a[1], a[2], a[3], a[4], a[5], io)
        IN /\ Refusable(Cur, a) => ~IsOk(r) /\ r.st = Cur
           /\ Refusable(Cur, a) /\ WellFormed(a) =>
                 r.ret.msg = "Failed to create group" /\ r.ret.cause = "GroupCreationError"
           /\ IsOk(r) => /\ ~Refusable(Cur, a)
                         /\ ~Has(Cur, r.ret.out.gid) /\ Has(r.st, r.ret.out.gid)
                         /\ RowIn(r.st, r.ret.out.gid).epoch = 0
                         /\ KpConsumed(Cur, r, Range(a[1]))

\* C16 witness: no group created yet, kA already consumed and kB usable: a
\* creation with kB succeeds and one with kA is refused.
C16_Witness ==
    /\ LockFree /\ session # NoSession /\ CanCreateGroup(Cur)
    /\ kp[session]["kA"].used = 1 /\ kp[session]["kB"].stored
    /\ IsOk(create_group(Cur, <<"kB">>, <<"B">>, "C", <<"B">>, << >>, TRUE))
    /\ create_group(Cur, <<"kA">>, <<"A">>, "C", <<"C">>, << >>, TRUE).ret.cause
          = "GroupCreationError"

\* r, the result of remove_members(g, pks) in state st, is as the claim says
RemoveChecked(st, g, pks, r) ==
    IF \E i \in 1..Len(pks) : pks[i] \notin RowIn(st, g).members
    THEN ~IsOk(r) /\ r.ret.cause = "MemberNotFound" /\ r.st = st
    ELSE /\ IsOk(r)
         /\ RowIn(r.st, g).epoch = RowIn(st, g).epoch + 1
         /\ RowIn(r.st, g).members = RowIn(st, g).members \ Range(pks)

\* C17: remove_members membership check.  On an existing group
\* remove_members fails with MemberNotFound, leaving the state unchanged, if
\* any of the given public keys is not currently a member, even when the
\* others are; otherwise it advances the epoch by one and the member set
\* becomes the previous set minus exactly the given keys; removing every
\* member, the caller included, is permitted and leaves a group with zero
\* members.
C17_RemoveMembers ==
    /\ \A g \in Gids, pks \in RemoveInputs :
          Has(Cur, g) /\ AllIn(pks, Pubkeys) =>
              RemoveChecked(Cur, g, pks, remove_members(Cur, g, pks))
    /\ \A g \in Gids, all \in RemoveInputs :
          IsMember(Cur, g) /\ Range(all) = RowIn(Cur, g).members =>
              /\ IsOk(remove_members(Cur, g, all))
              /\ RowIn(remove_members(Cur, g, all).st, g).members = {}

\* C17 witness: the created group has the members A, B and C, so that a
\* list with a non-member cannot occur but every sublist, the full list
\* included, can; and the joined group has members outside and inside
\* the lists.
C17_Witness ==
    /\ LockFree
    /\ IsMember(Cur, "g1") /\ RowIn(Cur, "g1").members = {"A", "B", "C"}
    /\ IsMember(Cur, "g2") /\ RowIn(Cur, "g2").members = {"A", "B"}
    /\ remove_members(Cur, "g2", <<"B", "C">>).ret.cause = "MemberNotFound"
    /\ RowIn(remove_members(Cur, "g1", <<"A", "B", "C">>).st, "g1").members = {}

\* C18: stale proposals are rejected.  commit_proposal with a proposal made
\* at an epoch the group has advanced past fails with StaleProposal and
\* leaves the state (epoch and member set) unchanged; a commit_proposal
\* that succeeds committed a proposal of the group's current epoch.
C18_StaleProposal ==
    \A g \in Gids, prop \in ProposalInputs :
        Has(Cur, g) /\ prop.kind # "bad" =>
            LET r == commit_proposal(Cur, g, prop)
            IN /\ prop.epoch < RowIn(Cur, g).epoch =>
                     ~IsOk(r) /\ r.ret.cause = "StaleProposal" /\ r.st = Cur
               /\ IsOk(r) => /\ prop.epoch = RowIn(Cur, g).epoch
                             /\ RowIn(r.st, g).epoch = prop.epoch + 1

\* C18 witness: the group has advanced to epoch 1 with A still a member; the
\* proposal to remove A made at epoch 0 is stale, the one made at epoch 1
\* commits.
C18_Witness ==
    /\ LockFree
    /\ IsMember(Cur, "g1") /\ RowIn(Cur, "g1").epoch = 1 /\ "A" \in RowIn(Cur, "g1").members
    /\ commit_proposal(Cur, "g1", RemoveProposal(0, "A")).ret.cause = "StaleProposal"
    /\ IsOk(commit_proposal(Cur, "g1", RemoveProposal(1, "A")))

\* C19: lock failure is transient.  After an operation has failed because
\* the session lock could not be acquired, a later call acquires it.
C19_LockFailureTransient == (lastlock = "failed") ~> (lastlock = "acquired")

UnknownGroup(r) ==
    ~IsOk(r) /\ r.ret.cause = "GroupNotFound" /\ r.st = Cur

\* C20: unknown group.  With an active session and a group id that is not
\* stored, get_group, get_members, add_members, remove_members,
\* commit_proposal, leave_group, create_message_for_group, export_secret,
\* and process_message_for_group of a message of that group, given
\* arguments that parse and a storage that answers, all fail with
\* GroupNotFound and leave the storage unchanged.
C20_UnknownGroup ==
    session # NoSession =>
    \A g \in Gids :
        ~Has(Cur, g) =>
            /\ \A io \in BOOLEAN : UnknownGroup(get_group(Cur, g, TRUE, io))
            /\ UnknownGroup(get_members(Cur, g, TRUE))
            /\ \A kps \in KpSeqInputs : AllIn(kps, KPs) => UnknownGroup(add_members(Cur, g, kps))
            /\ \A pks \in RemoveInputs : UnknownGroup(remove_members(Cur, g, pks))
            /\ \A prop \in ProposalInputs :
                  prop.kind # "bad" => UnknownGroup(commit_proposal(Cur, g, prop))
            /\ UnknownGroup(leave_group(Cur, g))
            /\ \A p \in Payloads : UnknownGroup(create_message_for_group(Cur, g, p))
            /\ UnknownGroup(export_secret(Cur, g))
            /\ \A ev \in AppEvents \cup CommitEvents \cup ProposalEvents :
                  ev.gid = g => UnknownGroup(process_message_for_group(Cur, Wire(ev)))

\* C20 witness: one group is stored and the other is not, with a usable key
\* package at hand.
C20_Witness ==
    /\ LockFree /\ session # NoSession
    /\ Has(Cur, "g1") /\ ~Has(Cur, "g2")
    /\ kp[session]["kB"].stored
    /\ IsOk(get_group(Cur, "g1", TRUE, TRUE))
    /\ get_group(Cur, "g2", TRUE, TRUE).ret.msg = "Group not found"

\* the (secret, epoch) pair export_secret returns for group g in state st
Exported(st, g) ==
    [secret |-> export_secret(st, g).ret.out.secret,
     epoch |-> export_secret(st, g).ret.out.epoch]

\* r, the result of a call on state st: if it applied a commit to g, the
\* export on the state it left is one epoch later with another secret;
\* otherwise the export is what it was
ExportFollows(st, g, r) ==
    IF Has(r.st, g) /\ RowIn(r.st, g).epoch # RowIn(st, g).epoch
    THEN /\ IsOk(export_secret(r.st, g))
         /\ Exported(r.st, g).epoch = Exported(st, g).epoch + 1
         /\ Exported(r.st, g).secret # Exported(st, g).secret
    ELSE Has(r.st, g) /\ Exported(r.st, g) = Exported(st, g)

\* r, the result of a call that applies no commit: every stored group's
\* export is what it was
ExportKept(r) ==
    \A g \in Gids : Has(Cur, g) => Has(r.st, g) /\ Exported(r.st, g) = Exported(Cur, g)

\* the calls that apply no commit, between two exports
C21_NoCommit ==
    session # NoSession =>
    /\ ExportKept(get_ciphersuite(Cur)) /\ ExportKept(get_extensions(Cur))
    /\ \A pk \in PkStrings, relay \in RelayInputs :
          CanCreateKp(Cur, pk) => ExportKept(create_key_package_for_event(Cur, pk, relay))
    /\ CanCreateGroup(Cur) =>
          \A a \in CreateInputs, io \in BOOLEAN :
              ExportKept(create_group(Cur, a[1], a[2], a[3], a[4], a[5], io))
    /\ \A g \in Gids :
          /\ \A rumor \in RumorStrings : ExportKept(create_message_for_group(Cur, g, rumor))
          /\ \A c \in SerializedCommitInputs :
                ExportKept(create_commit_message_for_group(Cur, g, c))
          /\ ExportKept(export_secret(Cur, g))
          /\ ExportKept(leave_group(Cur, g))
          /\ \A iog \in BOOLEAN, io \in BOOLEAN :
                ExportKept(get_group(Cur, g, iog, io)) /\ ExportKept(get_members(Cur, g, io))
    /\ \A idok \in BOOLEAN, w \in WelcomeInputs :
          /\ ExportKept(preview_group_from_welcome(Cur, idok, w))
          /\ \A io \in BOOLEAN : ExportKept(join_group_from_welcome(Cur, idok, w, io))
    /\ \A ev \in EventInputs :
          CanExist(Cur, ev) =>
             LET r == process_message_for_group(Cur, Wire(ev))
             IN (IsOk(r) /\ r.ret.out.changes) \/ ExportKept(r)

C21_Calls ==
    /\ C21_NoCommit
    /\ \A g \in Gids :
        Has(Cur, g) =>
            LET first == export_secret(Cur, g)
                second == export_secret(first.st, g)
            IN /\ IsOk(first)
               /\ first.ret.out.epoch = RowIn(Cur, g).epoch
               /\ first.ret.out.secret # NoKey
               /\ first.st = Cur
               /\ IsOk(second)
               /\ second.ret.out.secret = first.ret.out.secret
               /\ second.ret.out.epoch = first.ret.out.epoch
               /\ \A kps \in KpSeqInputs :
                     LET c == add_members(Cur, g, kps)
                     IN /\ ExportFollows(Cur, g, c)
                        /\ IsOk(c) => Exported(c.st, g).epoch = first.ret.out.epoch + 1
               /\ \A pks \in RemoveInputs :
                     LET c == remove_members(Cur, g, pks)
                     IN /\ ExportFollows(Cur, g, c)
                        /\ IsOk(c) => Exported(c.st, g).epoch = first.ret.out.epoch + 1
               /\ \A prop \in ProposalInputs :
                     LET c == commit_proposal(Cur, g, prop)
                     IN /\ ExportFollows(Cur, g, c)
                        /\ IsOk(c) => Exported(c.st, g).epoch = first.ret.out.epoch + 1
               /\ \A ev \in EventInputs :
                     CanExist(Cur, ev) =>
                        LET c == process_message_for_group(Cur, Wire(ev))
                        IN /\ ExportFollows(Cur, g, c)
                           /\ IsOk(c) /\ c.ret.out.changes /\ ev.gid = g =>
                                 Exported(c.st, g).epoch = first.ret.out.epoch + 1

\* the same across a step of the system, for every store
C21_Step ==
    \A d \in DbPaths : \A g \in Gids :
        HasGroup(groups[d], g) =>
            LET before == Exported([session |-> d, groups |-> groups, kp |-> kp], g)
                after == Exported([session |-> d, groups |-> groups', kp |-> kp'], g)
            IN IF Row(groups'[d], g).epoch = Row(groups[d], g).epoch
               THEN after = before
               ELSE /\ after.epoch = before.epoch + 1
                    /\ after.secret # before.secret

Uninit(r) == r.ret.msg = "NostrMls is not initialized"

\* the error messages of every operation other than init_nostr_mls on state
\* st are all (want = TRUE) or none of them (want = FALSE) the
\* not-initialized one
AllUninit(st, want) ==
    /\ Uninit(get_ciphersuite(st)) = want
    /\ Uninit(get_extensions(st)) = want
    /\ \A pk \in PkStrings, relay \in RelayInputs :
          CanCreateKp(st, pk) => Uninit(create_key_package_for_event(st, pk, relay)) = want
    /\ CanCreateGroup(st) =>
          \A a \in CreateInputs, io \in BOOLEAN :
              Uninit(create_group(st, a[1], a[2], a[3], a[4], a[5], io)) = want
    /\ \A g \in Gids :
          /\ \A rumor \in RumorStrings : Uninit(create_message_for_group(st, g, rumor)) = want
          /\ \A c \in SerializedCommitInputs :
                Uninit(create_commit_message_for_group(st, g, c)) = want
          /\ Uninit(export_secret(st, g)) = want
          /\ \A iog \in BOOLEAN, io \in BOOLEAN :
                /\ Uninit(get_members(st, g, io)) = want
                /\ Uninit(get_group(st, g, iog, io)) = want
          /\ \A kps \in KpSeqInputs : Uninit(add_members(st, g, kps)) = want
          /\ \A pks \in RemoveInputs : Uninit(remove_members(st, g, pks)) = want
          /\ \A prop \in ProposalInputs : Uninit(commit_proposal(st, g, prop)) = want
          /\ Uninit(leave_group(st, g)) = want
    /\ \A ev \in EventInputs :
          CanExist(st, ev) => Uninit(process_message_for_group(st, Wire(ev))) = want
    /\ \A idok \in BOOLEAN, w \in WelcomeInputs :
          /\ Uninit(preview_group_from_welcome(st, idok, w)) = want
          /\ \A io \in BOOLEAN : Uninit(join_group_from_welcome(st, idok, w, io)) = want

\* at every point of an init_nostr_mls call from the opening of the new
\* storage on, the prior session is gone; and the operations answer
\* not-initialized exactly while no session is stored
C22_State ==
    /\ ipc > 0 /\ InitOrder[ipc] # "drop" => session = NoSession
    /\ AllUninit(Cur, session = NoSession)

\* an init_nostr_mls call ends without a session exactly when the opening
\* failed; only the last statement of a successful init makes a session,
\* and only the first statement of an init removes one
C22_Step ==
    /\ ipc > 0 /\ ipc' = 0 /\ InitOrder[ipc] = "open" =>
          /\ session' = NoSession
          /\ SumHandles(DbPaths)' = 0
          /\ inited' = inited
          /\ groups' = groups /\ kp' = kp
    /\ ipc > 0 /\ ipc' = 0 /\ InitOrder[ipc] # "open" =>
          /\ session' = iarg /\ session' # NoSession
          /\ handles'[session'] = 1
          /\ inited'
    /\ session = NoSession /\ session' # NoSession =>
          ipc > 0 /\ InitOrder[ipc] = "store" /\ ipc' = 0
    /\ session # NoSession /\ session' # session =>
          ipc > 0 /\ InitOrder[ipc] = "drop" /\ session' = NoSession

\* C22: a failed init leaves no session.  When init_nostr_mls cannot open
\* the new storage it ends with no session stored and no storage handle
\* open: a session that was active when it was called has been dropped
\* before the opening and is not put back.  From then on every other
\* operation fails with "NostrMls is not initialized", and no step but the
\* last statement of a successful init_nostr_mls makes a session again.
\* After a successful init the session of the given path is active, holds
\* its storage handle, and no operation fails with "NostrMls is not
\* initialized" until the next init_nostr_mls call drops it.
C22_FailedInitNoSession == [](C22_State) /\ [][C22_Step]_vars

\* C22 witness: after an init had succeeded and its session had stored a
\* group, a later init_nostr_mls call has failed: no call is running, no
\* session and no handle is left, and get_group of the stored group is
\* refused; opening would have succeeded for another init.
C22_Witness ==
    /\ inited /\ ipc = 0 /\ iarg = "none"
    /\ session = NoSession /\ SumHandles(DbPaths) = 0
    /\ HasGroup(groups["db"], "g1")
    /\ Uninit(get_group(Cur, "g1", TRUE, TRUE))
    /\ IsOk(get_group([Cur EXCEPT !.session = "db"], "g1", TRUE, TRUE))

====
